---- MODULE Spec2Model ----
(***************************************************************************)
(* Community parcel desk: the Express server of src/server.js (the latest  *)
(* revision, lines 327-961) over its two spreadsheet tabs, Packages and    *)
(* Users, and the chat-bot handlers that bind residents and issue codes.   *)
(*                                                                         *)
(* Text is modelled as a sequence of one-character strings, so that the    *)
(* household-id regular expression and the 'code:expiry' cell are matched  *)
(* and split character by character (token by token) as the code does.     *)
(***************************************************************************)
EXTENDS Integers, Sequences, FiniteSets, TLC

\* ------------------------------------------------------------------ bounds
MaxLen == 4          \* longest household-id text fed to the validator
MaxPkgs == 2         \* data rows the Packages tab may hold
MaxUsers == 2        \* rows the Users tab may hold
MaxTicks == 1        \* clock ticks explored

\* ------------------------------------------------------- program constants
OtpTtlMs == 600000   \* 10 * 60 * 1000
MaxAttempts == 10    \* draws of generateUniqueOTP
TickMs == OtpTtlMs    \* the clock is sampled once per validity period

\* -------------------------------------------------------------- JS values
\* what a JSON request body can hold in a field: a missing field (undefined),
\* null, a string, a number (kept by its decimal digits) or an array of strings
Undefined == [t |-> "undefined", s |-> <<>>, items |-> <<>>]
Null == [t |-> "null", s |-> <<>>, items |-> <<>>]
Str(chars) == [t |-> "string", s |-> chars, items |-> <<>>]
Arr(items) == [t |-> "array", s |-> <<>>, items |-> items]

DigitChar == <<"0", "1", "2", "3", "4", "5", "6", "7", "8", "9">>

\* the decimal digits of n, 0 <= n < 100
Decimal(n) ==
  IF n < 10 THEN <<DigitChar[n + 1]>>
  ELSE <<DigitChar[(n \div 10) + 1], DigitChar[(n % 10) + 1]>>

Num(n) == [t |-> "number", s |-> Decimal(n), items |-> <<>>]

\* !v of JavaScript for the values above
Falsy(v) ==
  \/ v.t \in {"undefined", "null"}
  \/ v.t = "string" /\ v.s = <<>>
  \/ v.t = "number" /\ v.s = <<"0">>

RECURSIVE Join(_)
\* Array.prototype.join(','): String(array)
Join(items) ==
  IF items = <<>> THEN <<>>
  ELSE IF Len(items) = 1 THEN items[1]
  ELSE Join(SubSeq(items, 1, Len(items) - 1)) \o <<",">> \o items[Len(items)]

\* String(v): what RegExp.prototype.test matches against
JsString(v) ==
  IF v.t = "undefined" THEN <<"u", "n", "d", "e", "f", "i", "n", "e", "d">>
  ELSE IF v.t = "null" THEN <<"n", "u", "l", "l">>
  ELSE IF v.t = "array" THEN Join(v.items)
  ELSE v.s

\* ([3-9]|1[0-9])
FloorAlt(s) ==
  \/ Len(s) = 1 /\ s[1] \in {"3", "4", "5", "6", "7", "8", "9"}
  \/ Len(s) = 2 /\ s[1] = "1"
       /\ s[2] \in {"0", "1", "2", "3", "4", "5", "6", "7", "8", "9"}

\* ([AC][1-3]|B[1-4])
UnitAlt(s) ==
  /\ Len(s) = 2
  /\ \/ s[1] \in {"A", "C"} /\ s[2] \in {"1", "2", "3"}
     \/ s[1] = "B" /\ s[2] \in {"1", "2", "3", "4"}

\* /^([3-9]|1[0-9])([AC][1-3]|B[1-4])$/.test(s): the anchors force the two
\* groups to cover the whole text
RegexTest(s) ==
  \E k \in 0..Len(s) : FloorAlt(SubSeq(s, 1, k)) /\ UnitAlt(SubSeq(s, k + 1, Len(s)))

\* a plausible slip: the floor group written [2-9]|1[0-9]
FloorAltFrom2(s) ==
  \/ Len(s) = 1 /\ s[1] \in {"2", "3", "4", "5", "6", "7", "8", "9"}
  \/ Len(s) = 2 /\ s[1] = "1"
       /\ s[2] \in {"0", "1", "2", "3", "4", "5", "6", "7", "8", "9"}

ValidateFrom2(id) ==
  IF Falsy(id) THEN FALSE
  ELSE \E k \in 0..Len(JsString(id)) :
         /\ FloorAltFrom2(SubSeq(JsString(id), 1, k))
         /\ UnitAlt(SubSeq(JsString(id), k + 1, Len(JsString(id))))

\* server.js validateHouseholdId
ValidateHouseholdId(id) ==
  IF Falsy(id) THEN FALSE ELSE RegexTest(JsString(id))

\* CheckInForm.tsx validateHouseholdId: the same expression, no guard
FormValidateHouseholdId(id) == RegexTest(JsString(id))

\* ------------------------------------------------------------ input sets
H1 == <<"3", "A", "1">>
H2 == <<"1", "0", "B", "4">>
BadHousehold == <<"2", "A", "1">>
LowerHousehold == <<"3", "a", "1">>
Codes == {"1000"}
OtpInputs == Codes \cup {"9999", ""}
Residents == {<<"U1", H1>>, <<"U2", H2>>, <<"U1", LowerHousehold>>, <<"U2", BadHousehold>>}
Signatures == {"", "sig"}

\* ------------------------------------------------------------------ state
VARIABLES
  packs,       \* tab Packages, row 1 is the header row
  users,       \* tab Users (column D, the join date, is never read: left out)
  now,         \* Date.now()
  lineClient,  \* whether the chat client is configured
  resp,        \* the responses sent for the request being answered
  pushed,      \* the pushMessage calls made while handling it, and how each ended
  inflight,    \* SpecConc: the row-numbered write a handler has still to make
  vIn, vSrv, vForm, vDone,  \* SpecValidate: input and the validators' results
  gen          \* SpecGenerate: one call of generateUniqueOTP and what it returned

vars == <<packs, users, now, lineClient, resp, pushed, inflight,
          vIn, vSrv, vForm, vDone, gen>>

\* `PKG${Date.now()}`
PkgId(t) == <<"PKG", t>>

\* `${otp}:${expiry}` and the blank cell; colon is r[4].includes(':')
FormatOtp(otp, expiry) == [colon |-> TRUE, code |-> otp, expiry |-> expiry]
BlankOtp == [colon |-> FALSE, code |-> "", expiry |-> 0]

HeaderRow ==
  [id |-> <<"PackageID">>, barcode |-> "Barcode", hh |-> <<"HouseholdID">>,
   status |-> "Status", received |-> <<>>, pickupTime |-> <<>>, otp |-> "",
   sig |-> "", overdue |-> "", recipient |-> ""]

\* a row the grid holds no value for
BlankRow ==
  [id |-> <<>>, barcode |-> "", hh |-> <<>>, status |-> "", received |-> <<>>,
   pickupTime |-> <<>>, otp |-> "", sig |-> "", overdue |-> "", recipient |-> ""]

RespondData(status, body, data) == <<[status |-> status, body |-> body, data |-> data]>>
Respond(status, body) == RespondData(status, body, <<>>)

NoInflight == [kind |-> "none"]

\* generateUniqueOTP has not been called on its own
NoGen == [existingOtps |-> <<>>, draws |-> <<>>, otp |-> "", done |-> FALSE]

Init ==
  /\ packs = <<HeaderRow>>
  /\ users = <<>>
  /\ now = 0
  /\ lineClient \in BOOLEAN
  /\ resp = <<>>
  /\ pushed = <<>>
  /\ inflight = NoInflight
  /\ vIn = Undefined /\ vSrv = FALSE /\ vForm = FALSE /\ vDone = FALSE
  /\ gen = NoGen

ValidateVarsUnchanged == UNCHANGED <<vIn, vSrv, vForm, vDone, gen>>

\* no request is being answered
Idle == resp = <<>> /\ pushed = <<>>

\* the clock advances
Tick ==
  /\ Idle
  /\ now + TickMs <= MaxTicks * TickMs
  /\ now' = now + TickMs
  /\ UNCHANGED <<packs, users, lineClient, resp, pushed, inflight>>
  /\ ValidateVarsUnchanged

\* the exchange is over: the server waits for the next request
Done ==
  /\ ~Idle
  /\ resp' = <<>>
  /\ pushed' = <<>>
  /\ UNCHANGED <<packs, users, now, lineClient, inflight>>
  /\ ValidateVarsUnchanged

\* [...new Set(xs)]: first occurrences, in order
RECURSIVE Dedupe(_)
Dedupe(xs) ==
  IF xs = <<>> THEN <<>>
  ELSE LET front == Dedupe(SubSeq(xs, 1, Len(xs) - 1))
           x == xs[Len(xs)]
       IN IF \E i \in 1..Len(front) : front[i] = x THEN front ELSE Append(front, x)

RECURSIVE SelectRows(_, _)
\* rows.filter(keep), keep given as the set of kept indices
SelectRows(rows, keep) ==
  IF rows = <<>> THEN <<>>
  ELSE LET front == SelectRows(SubSeq(rows, 1, Len(rows) - 1), keep)
       IN IF Len(rows) \in keep THEN Append(front, rows[Len(rows)]) ELSE front

\* index of the first row of the set, 0 for findIndex's -1 (find's undefined)
FirstIndex(hits) == IF hits = {} THEN 0 ELSE CHOOSE i \in hits : \A j \in hits : i <= j

Max(S) == CHOOSE x \in S : \A y \in S : y <= x

Reverse(xs) == [i \in 1..Len(xs) |-> xs[Len(xs) + 1 - i]]

\* a plausible slip: the account ids are not reduced to distinct ones
GetLineUsersNoSet(householdId, recipientName, nfail) ==
  IF nfail \in {"auth", "read"} \/ users = <<>> THEN <<>>
  ELSE LET keep == {i \in 1..Len(users) :
                      /\ users[i].hh = householdId
                      /\ (IF recipientName /= "" THEN users[i].name = recipientName ELSE TRUE)}
           targetUsers == SelectRows(users, keep)
       IN [i \in 1..Len(targetUsers) |-> targetUsers[i].lineId]

\* getLineUsersByHousehold; nfail: the credentials or the Users read fail
GetLineUsersByHousehold(householdId, recipientName, nfail) ==
  IF nfail \in {"auth", "read"} \/ users = <<>> THEN <<>>
  ELSE LET keep == {i \in 1..Len(users) :
                      /\ users[i].hh = householdId
                      /\ (IF recipientName /= "" THEN users[i].name = recipientName ELSE TRUE)}
           targetUsers == SelectRows(users, keep)
       IN Dedupe([i \in 1..Len(targetUsers) |-> targetUsers[i].lineId])

\* lineClient.pushMessage(to, ...)
Push(to, delivered) == [to |-> to, delivered |-> delivered]

\* notifyUser: the pushes made, and whether the call threw
NotifyUser(householdId, recipientName, nfail) ==
  IF ~lineClient THEN [pushed |-> <<>>, threw |-> FALSE]
  ELSE LET uniqueUsers == GetLineUsersByHousehold(householdId, recipientName, nfail)
       IN [pushed |-> [i \in 1..Len(uniqueUsers) |-> Push(uniqueUsers[i], nfail /= "push")],
           threw |-> (uniqueUsers /= <<>> /\ nfail = "push")]

\* a plausible slip: a failed notification fails the request
CheckInResponseStrict(appended, threw, id) ==
  IF appended /\ ~threw THEN RespondData(200, "success", id)
  ELSE Respond(500, "Add failed")

\* server.js 794-804: the notification's failure is caught; the outer catch
\* answers for everything before it
CheckInResponse(appended, threw, id) ==
  IF appended THEN RespondData(200, "success", id)
  ELSE Respond(500, "Add failed")

\* a plausible slip: any row with the barcode counts as a duplicate
IsDuplicateAnyStatus(rows, barcode) ==
  \E i \in 1..Len(rows) : rows[i].barcode = barcode

\* existingRows.some(row => row[0] === barcode && row[2] === 'Pending')
IsDuplicate(rows, barcode) ==
  \E i \in 1..Len(rows) : rows[i].barcode = barcode /\ rows[i].status = "Pending"

\* a plausible slip: the household id is not validated
CheckInAdmitsAny(hhIn) == hhIn.t = "string"

\* server.js 779: the guard of POST /api/packages
CheckInAdmits(hhIn) == ValidateHouseholdId(hhIn)

\* server.js 790
NewPackage(hhIn, barcode, recipient) ==
  [id |-> PkgId(now), barcode |-> barcode, hh |-> hhIn.s, status |-> "Pending",
   received |-> <<now>>, pickupTime |-> <<>>, otp |-> "", sig |-> "",
   overdue |-> "FALSE", recipient |-> recipient]

\* POST /api/packages; fail: the call of the handler that fails ("auth": the
\* credentials are missing, whether or not the handler comes to ask for them),
\* nfail: the call of the notification that fails
CheckIn(hhIn, barcode, recipient, fail, nfail) ==
  LET valid == CheckInAdmits(hhIn)
      dup == IsDuplicate(packs, barcode)
      appended == valid /\ fail = "none" /\ ~dup
      note == NotifyUser(hhIn.s, recipient, nfail)
  IN /\ appended => Len(packs) - 1 < MaxPkgs
     /\ fail \in {"none", "auth", "read", "write"}
     /\ nfail \in {"none", "auth", "read", "push"}
     /\ fail = "read" => valid
     /\ fail = "write" => valid /\ ~dup
     /\ nfail /= "none" => appended /\ lineClient
     /\ nfail = "push" => note.pushed /= <<>>
     /\ resp' = IF ~valid THEN Respond(400, "household format")
                ELSE IF fail \in {"auth", "read"} THEN CheckInResponse(FALSE, FALSE, <<>>)
                ELSE IF dup THEN Respond(400, "barcode pending")
                ELSE CheckInResponse(appended, note.threw, PkgId(now))
     /\ packs' = IF appended THEN Append(packs, NewPackage(hhIn, barcode, recipient)) ELSE packs
     /\ pushed' = IF appended THEN note.pushed ELSE <<>>
     /\ UNCHANGED <<users, now, lineClient, inflight>>
     /\ ValidateVarsUnchanged

\* ---------------------------------------------------------------- the bot
LowerLetters ==
  <<"a", "b", "c", "d", "e", "f", "g", "h", "i", "j", "k", "l", "m",
    "n", "o", "p", "q", "r", "s", "t", "u", "v", "w", "x", "y", "z">>
UpperLetters ==
  <<"A", "B", "C", "D", "E", "F", "G", "H", "I", "J", "K", "L", "M",
    "N", "O", "P", "Q", "R", "S", "T", "U", "V", "W", "X", "Y", "Z">>

ToUpperChar(c) ==
  IF \E i \in 1..Len(LowerLetters) : LowerLetters[i] = c
  THEN UpperLetters[CHOOSE i \in 1..Len(LowerLetters) : LowerLetters[i] = c]
  ELSE c

ToLowerChar(c) ==
  IF \E i \in 1..Len(UpperLetters) : UpperLetters[i] = c
  THEN LowerLetters[CHOOSE i \in 1..Len(UpperLetters) : UpperLetters[i] = c]
  ELSE c

\* String.prototype.toLowerCase
ToLowerCase(s) == [i \in 1..Len(s) |-> ToLowerChar(s[i])]

\* String.prototype.toUpperCase
ToUpperCase(s) == [i \in 1..Len(s) |-> ToUpperChar(s[i])]

\* registerLineUser with the duplicate test narrowed to the rows of the same account
RegisterLineUserOwnRows(lineUserId, householdId, name, fail) ==
  LET isDuplicate == \E i \in 1..Len(users) :
        users[i].lineId = lineUserId /\ users[i].hh = householdId /\ users[i].name = name
      row == [lineId |-> lineUserId, hh |-> householdId, name |-> name, otp |-> BlankOtp]
  IN IF fail = "auth" THEN [users |-> users, success |-> FALSE, message |-> "System Error"]
     ELSE IF fail = "read"
       THEN [users |-> users, success |-> FALSE, message |-> "connection error"]
     ELSE IF isDuplicate
       THEN [users |-> users, success |-> FALSE, message |-> "already bound"]
     ELSE IF fail = "write"
       THEN [users |-> users, success |-> FALSE, message |-> "connection error"]
     ELSE [users |-> Append(users, row), success |-> TRUE, message |-> ""]

\* registerLineUser: the new Users tab and the result
RegisterLineUser(lineUserId, householdId, name, fail) ==
  LET isDuplicate == \E i \in 1..Len(users) : users[i].hh = householdId /\ users[i].name = name
      row == [lineId |-> lineUserId, hh |-> householdId, name |-> name, otp |-> BlankOtp]
  IN IF fail = "auth" THEN [users |-> users, success |-> FALSE, message |-> "System Error"]
     ELSE IF fail = "read"
       THEN [users |-> users, success |-> FALSE, message |-> "connection error"]
     ELSE IF isDuplicate
       THEN [users |-> users, success |-> FALSE, message |-> "already bound"]
     ELSE IF fail = "write"
       THEN [users |-> users, success |-> FALSE, message |-> "connection error"]
     ELSE [users |-> Append(users, row), success |-> TRUE, message |-> ""]

\* the binding branch of handleLineEvent with the test of line 535 left out
BotRegisterUnvalidated(userId, hhText, name, fail) ==
  LET householdId == ToUpperCase(hhText)
      result == RegisterLineUser(userId, householdId, name, fail)
  IN /\ lineClient
     /\ fail \in {"none", "auth", "read", "write"}
     /\ fail = "write" => result.message /= "already bound"
     /\ result.success => Len(users) < MaxUsers
     /\ users' = result.users
     /\ resp' = IF ~result.success THEN Respond(200, result.message)
                ELSE Respond(200, "reply: bound")
     /\ pushed' = <<>>
     /\ UNCHANGED <<packs, now, lineClient, inflight>>
     /\ ValidateVarsUnchanged

\* handleLineEvent on '綁定 <household> <name>' (three tokens)
BotRegister(userId, hhText, name, fail) ==
  LET householdId == ToUpperCase(hhText)
      valid == ValidateHouseholdId(Str(householdId))
      result == RegisterLineUser(userId, householdId, name, fail)
  IN /\ lineClient
     /\ fail \in {"none", "auth", "read", "write"}
     /\ fail /= "none" => valid
     /\ fail = "write" => result.message /= "already bound"
     /\ (valid /\ result.success) => Len(users) < MaxUsers
     /\ users' = IF valid THEN result.users ELSE users
     /\ resp' = IF ~valid THEN Respond(200, "reply: household format")
                ELSE IF ~result.success THEN Respond(200, result.message)
                ELSE Respond(200, "reply: bound")
     /\ pushed' = <<>>
     /\ UNCHANGED <<packs, now, lineClient, inflight>>
     /\ ValidateVarsUnchanged

\* the draws Math.random() may deliver to one call of generateUniqueOTP
DrawSeqs == {[i \in 1..MaxAttempts |-> IF i = 1 THEN a ELSE b] : a, b \in Codes}
NoDraws == [i \in 1..MaxAttempts |-> "1000"]

RECURSIVE GenerateLoop(_, _, _, _)
GenerateLoop(existingOtps, draws, attempts, otp) ==
  IF attempts < MaxAttempts
  THEN LET drawn == draws[attempts + 1]
           collision == \E i \in 1..Len(existingOtps) : existingOtps[i].code = drawn
       IN IF ~collision THEN drawn
          ELSE GenerateLoop(existingOtps, draws, attempts + 1, drawn)
  ELSE otp

\* generateUniqueOTP(existingOtps)
GenerateUniqueOTP(existingOtps, draws) == GenerateLoop(existingOtps, draws, 0, "")

\* userRows.map(r => r[4]).filter(val => val)
AllOtps(rows) ==
  LET cells == [i \in 1..Len(rows) |-> rows[i].otp]
  IN SelectRows(cells, {i \in 1..Len(rows) : rows[i].otp /= BlankOtp})

\* handleUserPickupRequest with the pendingCount test of line 631 left out
BotPickupAnyCount(userId, draws, fail) ==
  LET userRowIndex == FirstIndex({i \in 1..Len(users) : users[i].lineId = userId})
      otp == GenerateUniqueOTP(AllOtps(users), draws)
      expiry == now + OtpTtlMs
      issue == fail = "none" /\ userRowIndex /= 0
  IN /\ lineClient
     /\ fail \in {"none", "auth", "read", "read2", "write"}
     /\ ~issue => draws = NoDraws
     /\ fail \in {"read2", "write"} => userRowIndex /= 0
     /\ users' = IF issue
                 THEN [users EXCEPT ![userRowIndex].otp = FormatOtp(otp, expiry)]
                 ELSE users
     /\ resp' = IF fail = "auth" THEN Respond(200, "no reply")
                ELSE IF fail = "read" THEN Respond(200, "reply: busy")
                ELSE IF userRowIndex = 0 THEN Respond(200, "reply: not bound")
                ELSE IF fail \in {"read2", "write"} THEN Respond(200, "reply: busy")
                ELSE RespondData(200, "reply: code", <<otp>>)
     /\ pushed' = <<>>
     /\ UNCHANGED <<packs, now, lineClient, inflight>>
     /\ ValidateVarsUnchanged

\* handleUserPickupRequest ('領取', 'pickup', '取件')
BotPickup(userId, draws, fail) ==
  LET userRowIndex == FirstIndex({i \in 1..Len(users) : users[i].lineId = userId})
      householdId == users[userRowIndex].hh
      pendingCount == Cardinality({i \in 1..Len(packs) :
                        packs[i].hh = householdId /\ packs[i].status = "Pending"})
      otp == GenerateUniqueOTP(AllOtps(users), draws)
      expiry == now + OtpTtlMs
      issue == fail = "none" /\ userRowIndex /= 0 /\ pendingCount > 0
  IN /\ lineClient
     /\ fail \in {"none", "auth", "read", "read2", "write"}
     /\ ~issue => draws = NoDraws
     /\ fail = "read2" => userRowIndex /= 0
     /\ fail = "write" => userRowIndex /= 0 /\ pendingCount > 0
     /\ users' = IF issue
                 THEN [users EXCEPT ![userRowIndex].otp = FormatOtp(otp, expiry)]
                 ELSE users
     /\ resp' = IF fail = "auth" THEN Respond(200, "no reply")
                ELSE IF fail = "read" THEN Respond(200, "reply: busy")
                ELSE IF userRowIndex = 0 THEN Respond(200, "reply: not bound")
                ELSE IF fail = "read2" THEN Respond(200, "reply: busy")
                ELSE IF pendingCount = 0 THEN Respond(200, "reply: nothing pending")
                ELSE IF fail = "write" THEN Respond(200, "reply: busy")
                ELSE RespondData(200, "reply: code", <<otp>>)
     /\ pushed' = <<>>
     /\ UNCHANGED <<packs, now, lineClient, inflight>>
     /\ ValidateVarsUnchanged

\* what /\s/ matches and trim() removes, among the characters of the messages
IsSpace(c) == c \in {" ", "\t", "\n"}

RECURSIVE TrimStart(_)
TrimStart(s) == IF s = <<>> \/ ~IsSpace(Head(s)) THEN s ELSE TrimStart(Tail(s))

RECURSIVE TrimEnd(_)
TrimEnd(s) ==
  IF s = <<>> \/ ~IsSpace(s[Len(s)]) THEN s ELSE TrimEnd(SubSeq(s, 1, Len(s) - 1))

\* String.prototype.trim
Trim(s) == TrimEnd(TrimStart(s))

\* String.prototype.startsWith
StartsWith(s, prefix) ==
  Len(prefix) <= Len(s) /\ SubSeq(s, 1, Len(prefix)) = prefix

\* String.prototype.split(/\s+/): the pieces between the runs of whitespace,
\* an empty piece before a leading and after a trailing run
RECURSIVE SplitLoop(_, _, _, _)
SplitLoop(s, i, piece, pieces) ==
  IF i > Len(s) THEN Append(pieces, piece)
  ELSE IF IsSpace(s[i])
    THEN IF i > 1 /\ IsSpace(s[i - 1])
         THEN SplitLoop(s, i + 1, piece, pieces)
         ELSE SplitLoop(s, i + 1, <<>>, Append(pieces, piece))
  ELSE SplitLoop(s, i + 1, Append(piece, s[i]), pieces)

Split(s) == SplitLoop(s, 1, <<>>, <<>>)

\* the characters outside ASCII are written by name: "<bang>" is the one
\* character U+7D81, "<ding>" U+5B9A, "<zhu>" U+4F4F, "<hu>" U+6236,
\* "<ling>" U+9818, "<qu>" U+53D6, "<jian>" U+4EF6, "<cha>" U+67E5,
\* "<xun>" U+8A62, "<bao>" U+5305, "<guo>" U+88F9
BindWord == <<"<bang>", "<ding>">>
BindMenuWord == <<"<bang>", "<ding>", "<zhu>", "<hu>">>
RegWord == <<"r", "e", "g">>
PickupCommands ==
  {<<"<ling>", "<qu>">>, <<"p", "i", "c", "k", "u", "p">>, <<"<qu>", "<jian>">>}
QueryCommands ==
  {<<"<cha>", "<xun>">>, <<"<cha>", "<xun>", "<bao>", "<guo>">>,
   <<"c", "h", "e", "c", "k">>, <<"q", "u", "e", "r", "y">>}

\* a branch of handleLineEvent that replies, or returns, without touching a sheet
BotReply(body) ==
  /\ resp' = Respond(200, body)
  /\ pushed' = <<>>
  /\ UNCHANGED <<packs, users, now, lineClient, inflight>>
  /\ ValidateVarsUnchanged

\* POST /callback with one event: handleLineEvent
HandleLineEvent(event, draws, fail) ==
  LET isText == event.type = "message" /\ event.mtype = "text"
      userMessage == Trim(event.text)
      userId == event.userId
      isHelp == userMessage = BindMenuWord \/ userMessage = BindWord
      isReg == StartsWith(userMessage, BindWord)
                 \/ StartsWith(ToLowerCase(userMessage), RegWord)
      parts == Split(userMessage)
      isPickup == ToLowerCase(userMessage) \in PickupCommands
      isQuery == ToLowerCase(userMessage) \in QueryCommands
      quiet == fail = "none" /\ draws = NoDraws
  IN /\ lineClient
     /\ \/ ~isText /\ quiet /\ BotReply("no reply")
        \/ isText /\ isHelp /\ quiet /\ BotReply("reply: binding help")
        \/ isText /\ ~isHelp /\ isReg /\ Len(parts) < 3 /\ quiet
             /\ BotReply("reply: format incomplete")
        \/ isText /\ ~isHelp /\ isReg /\ Len(parts) >= 3 /\ draws = NoDraws
             /\ BotRegister(userId, parts[2], parts[3], fail)
        \/ isText /\ ~isHelp /\ ~isReg /\ isPickup /\ BotPickup(userId, draws, fail)
        \/ isText /\ ~isHelp /\ ~isReg /\ ~isPickup /\ isQuery /\ quiet
             /\ BotReply("reply: query")
        \/ isText /\ ~isHelp /\ ~isReg /\ ~isPickup /\ ~isQuery /\ quiet
             /\ BotReply("reply: menu")

\* -------------------------------------------------------- the /api routes
KnownIds == {packs[i].id : i \in 2..Len(packs)} \ {<<>>}
RequestIds == KnownIds \cup {PkgId(-1)}

\* POST /api/packages/:id/otp
IssueOtp(packageId, draws, fail) ==
  LET pkgIndex == FirstIndex({i \in 1..Len(packs) : packs[i].id = packageId})
      householdId == packs[pkgIndex].hh
      userRowIndex == IF pkgIndex = 0 THEN 0
                      ELSE FirstIndex({i \in 1..Len(users) : users[i].hh = householdId})
      userId == users[userRowIndex].lineId
      otp == GenerateUniqueOTP(AllOtps(users), draws)
      expiry == now + OtpTtlMs
      reached == fail \notin {"auth", "read", "read2"} /\ pkgIndex /= 0 /\ userRowIndex /= 0
      written == reached /\ fail /= "write"
  IN /\ fail \in {"none", "auth", "read", "read2", "write", "push"}
     /\ ~written => draws = NoDraws
     /\ fail = "read2" => pkgIndex /= 0
     /\ fail \in {"write", "push"} => reached
     /\ fail = "push" => lineClient
     /\ users' = IF written
                 THEN [users EXCEPT ![userRowIndex].otp = FormatOtp(otp, expiry)]
                 ELSE users
     /\ pushed' = IF written /\ lineClient THEN <<Push(userId, fail /= "push")>> ELSE <<>>
     /\ resp' = IF fail \in {"auth", "read"} THEN Respond(500, "Failed to generate OTP")
                ELSE IF pkgIndex = 0 THEN Respond(404, "Package not found")
                ELSE IF fail = "read2" THEN Respond(500, "Failed to generate OTP")
                ELSE IF userRowIndex = 0 THEN Respond(400, "No user bound to this household")
                ELSE IF fail \in {"write", "push"} THEN Respond(500, "Failed to generate OTP")
                ELSE Respond(200, "otp sent")
     /\ UNCHANGED <<packs, now, lineClient, inflight>>
     /\ ValidateVarsUnchanged

\* a plausible slip: the code is still taken at the instant it expires
CodeMatchesAtExpiry(cell, otp, t) == cell.colon /\ cell.code = otp /\ t <= cell.expiry

\* a plausible slip: the expiry is not compared
CodeMatchesNoExpiry(cell, otp, t) == cell.colon /\ cell.code = otp

\* r[4] && r[4].includes(':') && code === otp && Date.now() < parseInt(expiry)
CodeMatches(cell, otp, t) == cell.colon /\ cell.code = otp /\ t < cell.expiry

\* a plausible slip: the household of the row is not compared
PickupUserAnyHousehold(householdId, otp, t) ==
  FirstIndex({i \in 1..Len(users) : CodeMatches(users[i].otp, otp, t)})

\* server.js 935-940: the Users row that authorizes the pickup, 0 for none
PickupUser(householdId, otp, t) ==
  FirstIndex({i \in 1..Len(users) :
                users[i].hh = householdId /\ CodeMatches(users[i].otp, otp, t)})

\* server.js 836-840: the Users row a code is verified against, 0 for none
VerifyUser(otp, t) ==
  FirstIndex({i \in 1..Len(users) : CodeMatches(users[i].otp, otp, t)})

\* the filter of line 846 without its test of the status
PendingPackagesAnyStatus(householdId) ==
  SelectRows(packs, {i \in 2..Len(packs) : packs[i].hh = householdId})

\* pkgRows.slice(1).filter(r => r[2] === householdId && r[3] === 'Pending')
PendingPackages(householdId) ==
  SelectRows(packs, {i \in 2..Len(packs) :
                       packs[i].hh = householdId /\ packs[i].status = "Pending"})

\* POST /api/pickup/verify
Verify(otp, fail) ==
  LET userIndex == VerifyUser(otp, now)
      householdId == users[userIndex].hh
      pendingPackages == PendingPackages(householdId)
  IN /\ fail \in {"none", "auth", "read", "read2"}
     /\ fail \notin {"none", "auth"} => otp /= ""
     /\ fail = "read2" => userIndex /= 0
     /\ resp' = IF otp = "" THEN Respond(400, "Missing OTP")
                ELSE IF fail \in {"auth", "read"} THEN Respond(500, "Verification failed")
                ELSE IF userIndex = 0 THEN Respond(400, "verify: code invalid or expired")
                ELSE IF fail = "read2" THEN Respond(500, "Verification failed")
                ELSE IF pendingPackages = <<>> THEN Respond(400, "nothing pending")
                ELSE RespondData(200, "session",
                       <<[name |-> users[userIndex].name, householdId |-> householdId,
                          packages |-> [i \in 1..Len(pendingPackages) |-> pendingPackages[i].id]]>>)
     /\ pushed' = <<>>
     /\ UNCHANGED <<packs, users, now, lineClient, inflight>>
     /\ ValidateVarsUnchanged

\* values.batchUpdate on cells D, F, H (and G) of the numbered rows; a row
\* number past the data writes into the empty grid below it
MarkPickedUp(rows, sheetRows, t, sig, otp, setOtp) ==
  LET n == Max(sheetRows \cup {Len(rows)})
      padded == rows \o [i \in 1..(n - Len(rows)) |-> BlankRow]
  IN [i \in 1..n |->
        IF i \in sheetRows
        THEN [padded[i] EXCEPT !.status = "Picked Up", !.pickupTime = <<t>>, !.sig = sig,
                               !.otp = IF setOtp THEN otp ELSE @]
        ELSE padded[i]]

\* POST /api/packages/:id/pickup up to its write: the response if it ends
\* there, else the write it is about to make
PickupLookup(packageId, otp, sig, fail) ==
  LET pkgIndex == FirstIndex({i \in 1..Len(packs) : packs[i].id = packageId})
      householdId == packs[pkgIndex].hh
      userIndex == PickupUser(householdId, otp, now)
  IN IF fail \in {"auth", "read"} THEN [done |-> TRUE, resp |-> Respond(500, "Failed to pickup")]
     ELSE IF pkgIndex = 0 THEN [done |-> TRUE, resp |-> Respond(404, "Package not found")]
     ELSE IF fail = "read2" THEN [done |-> TRUE, resp |-> Respond(500, "Failed to pickup")]
     ELSE IF userIndex = 0
       THEN [done |-> TRUE, resp |-> Respond(400, "pickup: code invalid or expired")]
     ELSE [done |-> FALSE,
           write |-> [kind |-> "pickup", rows |-> {pkgIndex}, t |-> now, otp |-> otp,
                      sig |-> sig, setOtp |-> TRUE, target |-> {packageId}, count |-> 1]]

\* where the failure points of the pickup handler lie
PickupFailReached(packageId, otp, fail) ==
  LET pkgIndex == FirstIndex({i \in 1..Len(packs) : packs[i].id = packageId})
  IN /\ fail \in {"none", "auth", "read", "read2", "write"}
     /\ fail = "read2" => pkgIndex /= 0
     /\ fail = "write" => pkgIndex /= 0 /\ PickupUser(packs[pkgIndex].hh, otp, now) /= 0

\* the loop of lines 868-878 giving up as soon as one listed id is not found
FoundRowsUntilMissing(rows, packageIds) ==
  IF \A k \in 1..Len(packageIds) : \E i \in 1..Len(rows) : rows[i].id = packageIds[k]
  THEN [k \in 1..Len(packageIds) |->
          FirstIndex({i \in 1..Len(rows) : rows[i].id = packageIds[k]})]
  ELSE <<>>

RECURSIVE FoundRows(_, _)
\* server.js 868-878: the sheet row found for each listed id, in order
FoundRows(rows, packageIds) ==
  IF packageIds = <<>> THEN <<>>
  ELSE LET front == FoundRows(rows, SubSeq(packageIds, 1, Len(packageIds) - 1))
           rowIndex == FirstIndex({i \in 1..Len(rows) : rows[i].id = packageIds[Len(packageIds)]})
       IN IF rowIndex /= 0 THEN Append(front, rowIndex) ELSE front

\* POST /api/pickup/confirm up to its write
ConfirmLookup(packageIds, sig, fail) ==
  LET found == FoundRows(packs, packageIds)
  IN IF packageIds = <<>> THEN [done |-> TRUE, resp |-> Respond(400, "No packages selected")]
     ELSE IF fail \in {"auth", "read"}
       THEN [done |-> TRUE, resp |-> Respond(500, "Confirmation failed")]
     ELSE IF found = <<>> THEN [done |-> TRUE, resp |-> RespondData(200, "confirmed", <<0>>)]
     ELSE [done |-> FALSE,
           write |-> [kind |-> "confirm", rows |-> {found[i] : i \in 1..Len(found)},
                      t |-> now, otp |-> "", sig |-> sig, setOtp |-> FALSE,
                      target |-> {packageIds[i] : i \in 1..Len(packageIds)},
                      count |-> Len(found)]]

ConfirmFailReached(packageIds, fail) ==
  /\ fail \in {"none", "auth", "read", "write"}
  /\ fail \notin {"none", "auth"} => packageIds /= <<>>
  /\ fail = "write" => FoundRows(packs, packageIds) /= <<>>

\* a plausible slip: the batchUpdate is not awaited, so its failure is not
\* caught
WriteOutcomeNotAwaited(rows, w, fail) ==
  [packs |-> IF fail = "write" THEN rows
             ELSE MarkPickedUp(rows, w.rows, w.t, w.sig, w.otp, w.setOtp),
   resp |-> RespondData(200, IF w.kind = "pickup" THEN "picked up" ELSE "confirmed",
                        <<w.count>>)]

\* the awaited batchUpdate and the response after it
WriteOutcome(rows, w, fail) ==
  IF fail = "write"
  THEN [packs |-> rows,
        resp |-> Respond(500, IF w.kind = "pickup" THEN "Failed to pickup"
                              ELSE "Confirmation failed")]
  ELSE [packs |-> MarkPickedUp(rows, w.rows, w.t, w.sig, w.otp, w.setOtp),
        resp |-> RespondData(200, IF w.kind = "pickup" THEN "picked up" ELSE "confirmed",
                             <<w.count>>)]

\* POST /api/packages/:id/pickup, handled without interruption
Pickup(packageId, otp, sig, fail) ==
  LET look == PickupLookup(packageId, otp, sig, fail)
      out == WriteOutcome(packs, look.write, fail)
  IN /\ inflight = NoInflight
     /\ PickupFailReached(packageId, otp, fail)
     /\ resp' = IF look.done THEN look.resp ELSE out.resp
     /\ packs' = IF look.done THEN packs ELSE out.packs
     /\ pushed' = <<>>
     /\ UNCHANGED <<users, now, lineClient, inflight>>
     /\ ValidateVarsUnchanged

\* POST /api/pickup/confirm, handled without interruption
Confirm(packageIds, sig, fail) ==
  LET look == ConfirmLookup(packageIds, sig, fail)
      out == WriteOutcome(packs, look.write, fail)
  IN /\ inflight = NoInflight
     /\ ConfirmFailReached(packageIds, fail)
     /\ resp' = IF look.done THEN look.resp ELSE out.resp
     /\ packs' = IF look.done THEN packs ELSE out.packs
     /\ pushed' = <<>>
     /\ UNCHANGED <<users, now, lineClient, inflight>>
     /\ ValidateVarsUnchanged

\* POST /api/pickup/confirm with any JSON value for packageIds
ConfirmRequest(packageIds, sig, fail) ==
  IF Falsy(packageIds) \/ packageIds.t /= "array"
  THEN /\ inflight = NoInflight
       /\ fail \in {"none", "auth"}
       /\ resp' = Respond(400, "No packages selected")
       /\ pushed' = <<>>
       /\ UNCHANGED <<packs, users, now, lineClient, inflight>>
       /\ ValidateVarsUnchanged
  ELSE Confirm(packageIds.items, sig, fail)

\* POST /api/packages/:id/pickup from its start to the await of its write
BeginPickup(packageId, otp, sig, fail) ==
  LET look == PickupLookup(packageId, otp, sig, fail)
  IN /\ inflight = NoInflight
     /\ fail /= "write"
     /\ PickupFailReached(packageId, otp, fail)
     /\ resp' = IF look.done THEN look.resp ELSE resp
     /\ inflight' = IF look.done THEN inflight ELSE look.write
     /\ pushed' = <<>>
     /\ UNCHANGED <<packs, users, now, lineClient>>
     /\ ValidateVarsUnchanged

\* POST /api/pickup/confirm from its start to the await of its write
BeginConfirm(packageIds, sig, fail) ==
  LET look == ConfirmLookup(packageIds, sig, fail)
  IN /\ inflight = NoInflight
     /\ fail /= "write"
     /\ ConfirmFailReached(packageIds, fail)
     /\ resp' = IF look.done THEN look.resp ELSE resp
     /\ inflight' = IF look.done THEN inflight ELSE look.write
     /\ pushed' = <<>>
     /\ UNCHANGED <<packs, users, now, lineClient>>
     /\ ValidateVarsUnchanged

\* the pending batchUpdate reaches the spreadsheet as it is by then, and the
\* handler answers
FinishWrite(fail) ==
  LET out == WriteOutcome(packs, inflight, fail)
  IN /\ inflight /= NoInflight
     /\ fail \in {"none", "write"}
     /\ packs' = out.packs
     /\ resp' = out.resp
     /\ inflight' = NoInflight
     /\ pushed' = <<>>
     /\ UNCHANGED <<users, now, lineClient>>
     /\ ValidateVarsUnchanged

\* deleteDimension ROWS [rowIndex, rowIndex + 1)
DeleteRow(rows, rowIndex) ==
  SubSeq(rows, 1, rowIndex - 1) \o SubSeq(rows, rowIndex + 1, Len(rows))

\* DELETE /api/packages/:packageId
DeletePackage(packageId, fail) ==
  LET rowIndex == FirstIndex({i \in 1..Len(packs) : packs[i].id = packageId})
      deleted == fail = "none" /\ rowIndex /= 0
  IN /\ fail \in {"none", "auth", "read", "meta", "write"}
     /\ fail \in {"meta", "write"} => rowIndex /= 0
     /\ resp' = IF fail \in {"auth", "read"} THEN Respond(500, "Delete failed")
                ELSE IF rowIndex = 0 THEN Respond(404, "Package not found")
                ELSE IF fail \in {"meta", "write"} THEN Respond(500, "Delete failed")
                ELSE Respond(200, "package deleted")
     /\ packs' = IF deleted THEN DeleteRow(packs, rowIndex) ELSE packs
     /\ pushed' = <<>>
     /\ UNCHANGED <<users, now, lineClient, inflight>>
     /\ ValidateVarsUnchanged

\* DELETE /api/users/:lineId
DeleteUser(lineId, fail) ==
  LET rowIndex == FirstIndex({i \in 1..Len(users) : users[i].lineId = lineId})
      deleted == fail = "none" /\ rowIndex /= 0
  IN /\ fail \in {"none", "auth", "read", "meta", "write"}
     /\ fail \in {"meta", "write"} => rowIndex /= 0
     /\ resp' = IF fail \in {"auth", "read"} THEN Respond(500, "Delete failed")
                ELSE IF rowIndex = 0 THEN Respond(404, "User not found")
                ELSE IF fail \in {"meta", "write"} THEN Respond(500, "Delete failed")
                ELSE Respond(200, "user deleted")
     /\ users' = IF deleted THEN DeleteRow(users, rowIndex) ELSE users
     /\ pushed' = <<>>
     /\ UNCHANGED <<packs, now, lineClient, inflight>>
     /\ ValidateVarsUnchanged

\* the seeded admin tab (checkAndSeedAdmin)
AdminRows == <<[username |-> "admin", password |-> "admin"]>>

\* GET /api/packages
GetPackages(fail) ==
  /\ fail \in {"none", "auth", "read"}
  /\ resp' = IF fail \in {"auth", "read"} THEN Respond(500, "Fetch failed, with details")
             ELSE RespondData(200, "packages",
                    Reverse([i \in 1..(Len(packs) - 1) |-> packs[i + 1].id]))
  /\ pushed' = <<>>
  /\ UNCHANGED <<packs, users, now, lineClient, inflight>>
  /\ ValidateVarsUnchanged

\* GET /api/users
GetUsers(fail) ==
  /\ fail \in {"none", "auth", "read"}
  /\ resp' = IF fail \in {"auth", "read"} THEN Respond(500, "users: []")
             ELSE RespondData(200, "users", [i \in 1..Len(users) |-> users[i].lineId])
  /\ pushed' = <<>>
  /\ UNCHANGED <<packs, users, now, lineClient, inflight>>
  /\ ValidateVarsUnchanged

\* GET /api/households/:id/residents
GetResidents(hhText, fail) ==
  LET householdId == ToUpperCase(hhText)
      keep == {i \in 1..Len(users) : users[i].hh = householdId /\ users[i].name /= ""}
      residents == SelectRows(users, keep)
  IN /\ fail \in {"none", "auth", "read"}
     /\ resp' = IF fail \in {"auth", "read"} THEN Respond(500, "residents: []")
                ELSE RespondData(200, "residents",
                       Dedupe([i \in 1..Len(residents) |-> residents[i].name]))
     /\ pushed' = <<>>
     /\ UNCHANGED <<packs, users, now, lineClient, inflight>>
     /\ ValidateVarsUnchanged

\* POST /api/login
Login(username, password, fail) ==
  LET isValid == \E i \in 1..Len(AdminRows) :
                   AdminRows[i].username = username /\ AdminRows[i].password = password
  IN /\ fail \in {"none", "auth", "read"}
     /\ fail \notin {"none", "auth"} => username /= "" /\ password /= ""
     /\ resp' = IF username = "" \/ password = "" THEN Respond(400, "Missing credentials")
                ELSE IF fail \in {"auth", "read"} THEN Respond(500, "Login failed")
                ELSE IF isValid THEN Respond(200, "session_ok")
                ELSE Respond(401, "wrong account or password")
     /\ pushed' = <<>>
     /\ UNCHANGED <<packs, users, now, lineClient, inflight>>
     /\ ValidateVarsUnchanged

\* ------------------------------------------- the validators on their own
Alphabet == {"0", "1", "2", "3", "4", "9", "A", "B", "C", "a"}
Texts == UNION {[1..k -> Alphabet] : k \in 0..MaxLen}
ValidateInputs ==
  {Undefined, Null, Arr(<<>>), Arr(<<H1, H1>>)}
    \cup {Str(s) : s \in Texts}
    \cup {Arr(<<s>>) : s \in {<<>>, H1, H2, BadHousehold, LowerHousehold}}
    \cup {Num(n) : n \in 0..20}

InitValidate ==
  /\ packs = <<HeaderRow>>
  /\ users = <<>>
  /\ now = 0
  /\ lineClient = FALSE
  /\ resp = <<>>
  /\ pushed = <<>>
  /\ inflight = NoInflight
  /\ vIn \in ValidateInputs
  /\ vSrv = FALSE /\ vForm = FALSE /\ vDone = FALSE
  /\ gen = NoGen

\* both copies of validateHouseholdId applied to the same value
Validate ==
  /\ ~vDone
  /\ vSrv' = ValidateHouseholdId(vIn)
  /\ vForm' = FormValidateHouseholdId(vIn)
  /\ vDone' = TRUE
  /\ UNCHANGED <<packs, users, now, lineClient, resp, pushed, inflight, vIn, gen>>

NextValidate == Validate

SpecValidate == InitValidate /\ [][NextValidate]_vars

\* a floor number 3..19 without leading zero, then wing A or C with door
\* 1..3 or wing B with door 1..4
IsHouseholdText(s) ==
  \E floor \in 3..19, wing \in {"A", "B", "C"}, door \in 1..4 :
    /\ wing = "B" \/ door <= 3
    /\ s = Decimal(floor) \o <<wing, DigitChar[door + 1]>>

\* C5, as stated: both copies of validateHouseholdId return true for exactly
\* the strings that name a household (floor 3..19, wing A/C door 1..3 or wing B
\* door 1..4), and false for every other input.
C5_TrueExactlyForHouseholdStrings ==
  vDone => /\ vSrv = (vIn.t = "string" /\ IsHouseholdText(vIn.s))
           /\ vForm = (vIn.t = "string" /\ IsHouseholdText(vIn.s))

\* C5, amended: for an input that is a string, a number, null or undefined,
\* both copies of validateHouseholdId return true exactly when the input is a
\* string that names a household; an array is judged by its conversion to a
\* string.
C5_TrueExactlyForHouseholdTexts ==
  vDone =>
    IF vIn.t = "array"
    THEN vSrv = IsHouseholdText(Join(vIn.items)) /\ vForm = vSrv
    ELSE /\ vSrv = (vIn.t = "string" /\ IsHouseholdText(vIn.s))
         /\ vForm = (vIn.t = "string" /\ IsHouseholdText(vIn.s))

\* a two-digit floor with wing B, door 4 has been accepted by both copies
C5_Witness == vDone /\ vIn = Str(H2) /\ vSrv /\ vForm

\* ------------------------------------------------------ request input sets
NoFail == {"none"}
IdLists == {<<>>} \cup {<<a>> : a \in RequestIds} \cup {<<a, b>> : a, b \in KnownIds}

\* Date.now() differs from one check-in to the next: the clock is read at
\* most once for a new id between two advances of it
FreshClock == \A i \in 1..Len(packs) : packs[i].id /= PkgId(now)

DoCheckIn(hhs, barcodes, recipients, fails, nfails) ==
  \E hhIn \in hhs, barcode \in barcodes, recipient \in recipients,
     fail \in fails, nfail \in nfails :
    Idle /\ FreshClock /\ CheckIn(hhIn, barcode, recipient, fail, nfail)

DoBotRegister(residents, names, fails) ==
  \E r \in residents, name \in names, fail \in fails :
    Idle /\ BotRegister(r[1], r[2], name, fail)

DoBotPickup(lineIds, fails) ==
  \E userId \in lineIds, draws \in DrawSeqs, fail \in fails :
    Idle /\ BotPickup(userId, draws, fail)

DoIssueOtp(fails) ==
  \E packageId \in RequestIds, draws \in DrawSeqs, fail \in fails :
    Idle /\ IssueOtp(packageId, draws, fail)

DoVerify(fails) ==
  \E otp \in OtpInputs, fail \in fails : Idle /\ Verify(otp, fail)

DoConfirm(sigs, fails) ==
  \E packageIds \in IdLists, sig \in sigs, fail \in fails :
    Idle /\ Confirm(packageIds, sig, fail)

DoPickup(sigs, fails) ==
  \E packageId \in RequestIds, otp \in OtpInputs, sig \in sigs, fail \in fails :
    Idle /\ Pickup(packageId, otp, sig, fail)

DoDeletePackage(fails) ==
  \E packageId \in RequestIds, fail \in fails : Idle /\ DeletePackage(packageId, fail)


DoDeleteUser(lineIds, fails) ==
  \E lineId \in lineIds, fail \in fails : Idle /\ DeleteUser(lineId, fail)

DoGetPackages(fails) == \E fail \in fails : Idle /\ GetPackages(fail)

DoGetUsers(fails) == \E fail \in fails : Idle /\ GetUsers(fail)

DoGetResidents(fails) ==
  \E hhText \in {H1, LowerHousehold}, fail \in fails : Idle /\ GetResidents(hhText, fail)

DoLogin(fails) ==
  \E username \in {"", "admin"}, password \in {"admin", "x"}, fail \in fails :
    Idle /\ Login(username, password, fail)

DoBeginPickup(sigs) ==
  \E packageId \in RequestIds, otp \in OtpInputs, sig \in sigs :
    Idle /\ BeginPickup(packageId, otp, sig, "none")

DoBeginConfirm(sigs) ==
  \E packageIds \in IdLists, sig \in sigs : Idle /\ BeginConfirm(packageIds, sig, "none")

DoFinishWrite == Idle /\ FinishWrite("none")

Next ==
  \/ Tick
  \/ Done
  \/ DoCheckIn({Str(H1), Str(H2), Str(BadHousehold), Undefined}, {"b1", "b2"}, {""},
               NoFail, NoFail)
  \/ DoBotRegister(Residents, {"amy"}, NoFail)
  \/ DoBotPickup({"U1", "U2"}, NoFail)
  \/ DoIssueOtp(NoFail)
  \/ DoVerify(NoFail)
  \/ DoConfirm(Signatures, NoFail)
  \/ DoPickup(Signatures, NoFail)
  \/ DoDeletePackage(NoFail)

\* requests handled one after the other, the spreadsheet and the chat
\* service answering every call
Spec == Init /\ [][Next]_vars

\* --------------------------------------------------- claims under Spec
\* a Users row of the household holds the code, not yet expired
HouseholdHoldsCode(householdId, otp) ==
  \E i \in 1..Len(users) :
    /\ users[i].hh = householdId
    /\ users[i].otp.colon
    /\ users[i].otp.code = otp
    /\ now < users[i].otp.expiry

HouseholdOf(packageId) ==
  packs[FirstIndex({k \in 1..Len(packs) : packs[k].id = packageId})].hh

\* C1: POST /api/packages/:id/pickup changes the Packages sheet only when the
\* supplied code is the code part of the cell of a Users row of the package's
\* own household and the clock is strictly before that row's expiry.
C1_PickupOnlyWithHouseholdCode ==
  [][\A packageId \in RequestIds, otp \in OtpInputs, sig \in Signatures :
       (Idle /\ Pickup(packageId, otp, sig, "none") /\ packs' /= packs)
         => /\ packageId \in KnownIds
            /\ HouseholdHoldsCode(HouseholdOf(packageId), otp)]_vars

\* a pickup has succeeded while a user of another household held a code too
C1_Witness ==
  /\ resp = RespondData(200, "picked up", <<1>>)
  /\ \E k \in 2..Len(packs), i \in 1..Len(users) :
       /\ packs[k].status = "Picked Up" /\ packs[k].otp \in Codes
       /\ users[i].hh /= packs[k].hh /\ users[i].otp.colon

\* C2: every step that moves a package to 'Picked Up' happens while a Users
\* row of the package's household holds an unexpired code (so that a code
\* verification can have passed) and writes a non-empty signature.
C2_PickedUpHadCodeAndSignature ==
  [][\A k \in 2..Len(packs') :
       (/\ packs'[k].status = "Picked Up"
        /\ ~\E j \in 2..Len(packs) :
              packs[j].id = packs'[k].id /\ packs[j].status = "Picked Up")
         => /\ packs'[k].sig /= ""
            /\ \E otp \in Codes : HouseholdHoldsCode(packs'[k].hh, otp)]_vars

\* the code string c:e of a Users row was issued at e - OtpTtlMs; a 'Picked
\* Up' row of that household whose code cell is c and whose pickup time lies
\* in [e - OtpTtlMs, e) was authorized by that string
CodeSpent(otp) ==
  \E k \in 2..Len(packs), i \in 1..Len(users) :
    /\ packs[k].status = "Picked Up" /\ packs[k].otp = otp
    /\ users[i].hh = packs[k].hh
    /\ users[i].otp.colon /\ users[i].otp.code = otp
    /\ packs[k].pickupTime /= <<>>
    /\ users[i].otp.expiry - OtpTtlMs <= packs[k].pickupTime[1]
    /\ packs[k].pickupTime[1] < users[i].otp.expiry

\* C3: once a code has authorized a successful pickup, no later verify or
\* pickup request presenting it is accepted.
C3_CodeIsOneTime ==
  [][\A otp \in Codes :
       CodeSpent(otp) =>
         /\ \A packageId \in RequestIds, sig \in Signatures :
              (Idle /\ Pickup(packageId, otp, sig, "none")) => resp'[1].status /= 200
         /\ (Idle /\ Verify(otp, "none")) => resp'[1].status /= 200]_vars

\* the code is incorrect, expired or was never issued: no Users row of the
\* household holds it unexpired
CodeIncorrect(householdId, otp) ==
  \A i \in 1..Len(users) :
    (users[i].hh = householdId /\ users[i].otp.colon) => users[i].otp.code /= otp

CodeExpired(householdId, otp) ==
  \E i \in 1..Len(users) :
    /\ users[i].hh = householdId /\ users[i].otp.colon /\ users[i].otp.code = otp
    /\ \A j \in 1..Len(users) :
         (users[j].hh = householdId /\ users[j].otp.colon /\ users[j].otp.code = otp)
           => now >= users[j].otp.expiry

CodeNeverIssued(householdId) ==
  \A i \in 1..Len(users) : users[i].hh = householdId => ~users[i].otp.colon

\* C4: POST /api/packages/:id/pickup for an existing package with an incorrect
\* code, an expired code or no code ever issued (the spreadsheet answering)
\* is answered 400 and changes no cell of the Packages sheet.
C4_BadCodeRejectedUnchanged ==
  [][\A packageId \in KnownIds, otp \in OtpInputs, sig \in Signatures :
       (/\ Idle /\ Pickup(packageId, otp, sig, "none")
        /\ \/ CodeIncorrect(HouseholdOf(packageId), otp)
           \/ CodeExpired(HouseholdOf(packageId), otp)
           \/ CodeNeverIssued(HouseholdOf(packageId)))
         => /\ Len(resp') = 1 /\ resp'[1].status = 400
            /\ packs' = packs]_vars

\* a pickup has been refused while the household's code had expired and the
\* package is still pending
C4_Witness ==
  /\ resp = Respond(400, "pickup: code invalid or expired")
  /\ \E k \in 2..Len(packs), i \in 1..Len(users) :
       /\ packs[k].status = "Pending" /\ packs[k].pickupTime = <<>> /\ packs[k].sig = ""
       /\ users[i].hh = packs[k].hh /\ users[i].otp.colon /\ now >= users[i].otp.expiry

\* C6: POST /api/packages with a household id that fails validateHouseholdId
\* is answered 400, appends no row and pushes no notification; every row the
\* endpoint appends carries a household id that passes validateHouseholdId.
C6_InvalidHouseholdRejected ==
  [][\A hhIn \in {Str(H1), Str(H2), Str(BadHousehold), Undefined},
       barcode \in {"b1", "b2"} :
       (Idle /\ CheckIn(hhIn, barcode, "", "none", "none"))
         => /\ ~ValidateHouseholdId(hhIn)
                => /\ Len(resp') = 1 /\ resp'[1].status = 400
                   /\ packs' = packs /\ pushed' = <<>>
            /\ \A k \in (Len(packs) + 1)..Len(packs') :
                 ValidateHouseholdId(Str(packs'[k].hh))]_vars

\* a check-in has been refused for its household id
C6_Witness ==
  /\ resp = Respond(400, "household format")
  /\ \A k \in 2..Len(packs) : ValidateHouseholdId(Str(packs[k].hh))

\* some package has the barcode and is pending
BarcodePending(barcode) ==
  \E k \in 2..Len(packs) : packs[k].barcode = barcode /\ packs[k].status = "Pending"

\* C7: POST /api/packages (household id valid) is answered 400 and appends no
\* row when a pending package has the barcode; otherwise (barcode absent or
\* only on picked-up packages) it appends exactly one new 'Pending' row.
C7_DuplicatePendingBarcode ==
  [][\A hhIn \in {Str(H1), Str(H2)}, barcode \in {"b1", "b2"} :
       (Idle /\ CheckIn(hhIn, barcode, "", "none", "none"))
         => IF BarcodePending(barcode)
            THEN resp'[1].status = 400 /\ packs' = packs
            ELSE /\ resp'[1].status = 200
                 /\ Len(packs') = Len(packs) + 1
                 /\ SubSeq(packs', 1, Len(packs)) = packs
                 /\ packs'[Len(packs')].barcode = barcode
                 /\ packs'[Len(packs')].status = "Pending"]_vars

\* a barcode already on a picked-up package has been checked in again
C7_Witness ==
  /\ resp /= <<>> /\ resp[1].body = "success"
  /\ \E j, k \in 2..Len(packs) :
       /\ j < k /\ k = Len(packs)
       /\ packs[j].barcode = packs[k].barcode
       /\ packs[j].status = "Picked Up" /\ packs[k].status = "Pending"

\* some Users row holds the code, not yet expired
SomeRowHoldsCode(otp) ==
  \E i \in 1..Len(users) :
    users[i].otp.colon /\ users[i].otp.code = otp /\ now < users[i].otp.expiry

\* the code was issued and every row that holds it has reached its expiry
CodeRunOut(otp) ==
  /\ \E i \in 1..Len(users) : users[i].otp.colon /\ users[i].otp.code = otp
  /\ ~SomeRowHoldsCode(otp)

\* C11: a code written at time t (bot command or POST /api/packages/:id/otp)
\* carries the expiry t + 600000; verify and pickup accept a code at time u
\* only while a row holds it with u < expiry, and answer 400 once every row
\* holding it has u >= expiry.
C11_CodeValidTenMinutes ==
  [][/\ \A i \in 1..Len(users) :
          (i <= Len(users') /\ users'[i].lineId = users[i].lineId
             /\ users'[i].otp /= users[i].otp)
            => users'[i].otp.colon /\ users'[i].otp.expiry = now + 600000
     /\ \A otp \in Codes :
          /\ (Idle /\ Verify(otp, "none") /\ resp'[1].status = 200)
               => SomeRowHoldsCode(otp)
          /\ (Idle /\ Verify(otp, "none") /\ CodeRunOut(otp))
               => resp'[1].status = 400
          /\ \A packageId \in KnownIds, sig \in Signatures :
               /\ (Idle /\ Pickup(packageId, otp, sig, "none") /\ resp'[1].status = 200)
                    => SomeRowHoldsCode(otp)
               /\ (Idle /\ Pickup(packageId, otp, sig, "none") /\ CodeRunOut(otp))
                    => resp'[1].status = 400 /\ packs' = packs]_vars

\* a verify request has been refused at the very instant the code expired
C11_Witness ==
  /\ resp = Respond(400, "verify: code invalid or expired")
  /\ \E i \in 1..Len(users) : users[i].otp.colon /\ users[i].otp.expiry = now

\* the Users rows holding the code, not yet expired
CodeHolders(otp) ==
  {i \in 1..Len(users) :
     users[i].otp.colon /\ users[i].otp.code = otp /\ now < users[i].otp.expiry}

\* the ids of the Pending packages of a household, in sheet order
PendingIdsOf(householdId) ==
  LET S == {p \in 2..Len(packs) :
              packs[p].hh = householdId /\ packs[p].status = "Pending"}
  IN [k \in 1..Cardinality(S) |->
        packs[CHOOSE p \in S : Cardinality({q \in S : q <= p}) = k].id]

\* C17: verify answers 200 exactly when some Users row holds the code
\* unexpired and the household of the first such row has a Pending package;
\* the answer then carries that row's name and household and exactly the
\* Pending packages of that household (no header row, no other household, no
\* 'Picked Up' package); otherwise it answers 400; no sheet is modified.
C17_VerifyReturnsPendingOfHolder ==
  [][\A otp \in OtpInputs :
       (Idle /\ Verify(otp, "none"))
         => /\ packs' = packs /\ users' = users
            /\ IF CodeHolders(otp) = {}
               THEN resp'[1].status = 400
               ELSE LET holder == users[CHOOSE i \in CodeHolders(otp) :
                                        \A j \in CodeHolders(otp) : i <= j]
                    IN IF PendingIdsOf(holder.hh) = <<>>
                       THEN resp'[1].status = 400
                       ELSE /\ resp'[1].status = 200
                            /\ resp'[1].data =
                                 <<[name |-> holder.name, householdId |-> holder.hh,
                                    packages |-> PendingIdsOf(holder.hh)]>>]_vars

\* one package listed while the household's other package is already picked up
C17_Witness ==
  /\ Len(resp) = 1 /\ resp[1].body = "session"
  /\ Len(resp[1].data[1].packages) = 1
  /\ \E p \in 2..Len(packs) :
       packs[p].hh = resp[1].data[1].householdId /\ packs[p].status = "Picked Up"

\* ------------------------------------------------ the desk's confirmations
ConfirmLists ==
  IdLists \cup {<<HeaderRow.id>>}
    \cup {<<a, PkgId(-1)>> : a \in KnownIds} \cup {<<PkgId(-1), a>> : a \in KnownIds}

ConfirmBodies ==
  {Undefined, Null, Str(<<>>), Str(<<"P">>), Num(7)} \cup {Arr(l) : l \in ConfirmLists}

DoConfirmRequest(sigs, fails) ==
  \E packageIds \in ConfirmBodies, sig \in sigs, fail \in fails :
    Idle /\ ConfirmRequest(packageIds, sig, fail)

NextConfirm ==
  \/ Tick
  \/ Done
  \/ DoCheckIn({Str(H1), Str(H2)}, {"b1", "b2"}, {""}, NoFail, NoFail)
  \/ DoConfirmRequest(Signatures, NoFail)

SpecConfirm == Init /\ [][NextConfirm]_vars

\* C18: a confirmation whose packageIds is a non-empty array marks the row of
\* every listed id found in column A 'Picked Up', with the one instant of the
\* request and its signature, leaves every other row as it was and answers
\* with the number of listed ids that were found; a packageIds that is
\* missing, not an array or empty is answered 400 and nothing is written.
C18_ConfirmMarksListedFound ==
  [][\A body \in ConfirmBodies, sig \in Signatures :
       (Idle /\ ConfirmRequest(body, sig, "none"))
         => /\ users' = users
            /\ IF body.t = "array" /\ Len(body.items) >= 1
               THEN LET listed == {body.items[k] : k \in 1..Len(body.items)}
                        found(i) == /\ packs[i].id \in listed
                                    /\ \A j \in 1..(i - 1) : packs[j].id /= packs[i].id
                    IN /\ Len(packs') = Len(packs)
                       /\ \A i \in 1..Len(packs) :
                            packs'[i] = IF found(i)
                                        THEN [packs[i] EXCEPT !.status = "Picked Up",
                                                              !.pickupTime = <<now>>,
                                                              !.sig = sig]
                                        ELSE packs[i]
                       /\ resp'[1].status = 200
                       /\ resp'[1].data =
                            <<Cardinality({k \in 1..Len(body.items) :
                                 \E i \in 1..Len(packs) : packs[i].id = body.items[k]})>>
               ELSE resp'[1].status = 400 /\ packs' = packs]_vars

\* two packages received at different instants confirmed in one request
C18_Witness ==
  /\ Len(resp) = 1 /\ resp[1].body = "confirmed" /\ resp[1].data = <<2>>
  /\ Len(packs) = 3
  /\ packs[2].status = "Picked Up" /\ packs[3].status = "Picked Up"
  /\ packs[2].received /= packs[3].received
  /\ packs[2].pickupTime = packs[3].pickupTime
  /\ packs[2].sig = "sig" /\ packs[3].sig = "sig"

\* ------------------------------------------------ overlapping requests
NextConc ==
  \/ Tick
  \/ Done
  \/ DoCheckIn({Str(H1)}, {"b1", "b2"}, {""}, NoFail, NoFail)
  \/ DoBotRegister({<<"U1", H1>>}, {"amy"}, NoFail)
  \/ DoBotPickup({"U1"}, NoFail)
  \/ DoBeginPickup({"sig"})
  \/ DoBeginConfirm({"sig"})
  \/ DoFinishWrite
  \/ DoDeletePackage(NoFail)

\* a pickup or a confirmation is suspended at the await of its write while
\* other requests are served
SpecConc == Init /\ [][NextConc]_vars

\* C8: when the write of a pickup or of a confirmation of the packages
\* inflight.target succeeds, only the status, pickup-time, signature and code
\* cells of the targets' own rows change; every other row is left as it was,
\* whatever other requests were served since the row lookup.
C8_SingleRowUpdate ==
  [][(inflight /= NoInflight /\ inflight' = NoInflight /\ packs' /= packs)
       => \A k \in 2..Len(packs) :
            IF packs[k].id \in inflight.target
            THEN packs'[k] = [packs[k] EXCEPT !.status = packs'[k].status,
                                             !.pickupTime = packs'[k].pickupTime,
                                             !.sig = packs'[k].sig,
                                             !.otp = packs'[k].otp]
            ELSE packs'[k] = packs[k]]_vars

\* ------------------------------------------------ bindings and notifications
NotifyResidents == {<<"U1", H1>>, <<"U2", H1>>, <<"U1", H2>>}
NotifyNames == {"amy", "bob"}

NextNotify ==
  \/ Done
  \/ DoBotRegister(NotifyResidents, NotifyNames, NoFail)
  \/ DoCheckIn({Str(H1), Str(H2)}, {"b1"}, {""} \cup NotifyNames, NoFail, NoFail)
  \/ DoDeleteUser({"U1", "U2"}, NoFail)
  \/ DoDeletePackage(NoFail)

\* accounts bound under several names and households, check-ins with and
\* without a recipient name, bindings deleted from the management panel
SpecNotify == Init /\ [][NextNotify]_vars

\* the accounts with a Users row of the household and, if a name is given,
\* of that name
BoundAccounts(householdId, recipientName) ==
  {users[i].lineId : i \in {j \in 1..Len(users) :
                               /\ users[j].hh = householdId
                               /\ recipientName = "" \/ users[j].name = recipientName}}

\* C12: a successful check-in for household H and recipient N pushes the
\* arrival notification exactly once to each distinct account bound to H (and
\* named N when N is given) and to no other account.
C12_NotifiesBoundAccountsOnce ==
  [][\A hhIn \in {Str(H1), Str(H2)}, recipient \in {""} \cup NotifyNames :
       (Idle /\ CheckIn(hhIn, "b1", recipient, "none", "none") /\ Len(packs') > Len(packs))
         => /\ {pushed'[i].to : i \in 1..Len(pushed')} = BoundAccounts(hhIn.s, recipient)
            /\ Len(pushed') = Cardinality(BoundAccounts(hhIn.s, recipient))
            /\ \A i \in 1..Len(pushed') : pushed'[i].delivered]_vars

\* an account bound twice to the household has been notified once, while an
\* account of another household was left out
C12_Witness ==
  /\ resp /= <<>> /\ resp[1].body = "success"
  /\ Len(pushed) = 1
  /\ Cardinality({i \in 1..Len(users) :
                    users[i].lineId = pushed[1].to /\ users[i].hh = packs[Len(packs)].hh}) = 2

\* C13: once DELETE /api/users/L has answered success, no Users row of account
\* L is left, so that no later check-in finds L among the accounts to notify,
\* whatever bindings L had.
C13_DeletedAccountHasNoRow ==
  [][\A lineId \in {"U1", "U2"} :
       (Idle /\ DeleteUser(lineId, "none") /\ resp'[1].status = 200)
         => \A i \in 1..Len(users') : users'[i].lineId /= lineId]_vars

NoSharedBinding ==
  \A i, j \in 1..Len(users) :
    (users[i].hh = users[j].hh /\ users[i].name = users[j].name) => i = j

\* C14: a registration whose (household, name) pair is on no Users row appends
\* exactly one row (chat id, household, name, empty code) and succeeds; one
\* whose pair is already on a row is refused with the duplicate message and
\* appends nothing; so no two Users rows ever share a (household, name) pair.
C14_RegisterOncePerHouseholdName ==
  /\ []NoSharedBinding
  /\ [][\A r \in NotifyResidents, name \in NotifyNames :
         (Idle /\ BotRegister(r[1], r[2], name, "none"))
           => IF \E i \in 1..Len(users) : users[i].hh = r[2] /\ users[i].name = name
              THEN users' = users /\ resp' = Respond(200, "already bound")
              ELSE /\ users' = Append(users, [lineId |-> r[1], hh |-> r[2],
                                               name |-> name, otp |-> BlankOtp])
                   /\ resp' = Respond(200, "reply: bound")]_vars

C14_Witness ==
  /\ resp = Respond(200, "already bound")
  /\ Len(users) = 1
  /\ users[1].lineId = "U1"

\* ------------------------------------------------ the bot's messages
Amy == <<"a", "m", "y">>
Bob == <<"b", "o", "b">>
Sp == <<" ">>
PaddedBinding == Sp \o BindWord \o Sp \o Sp \o LowerHousehold \o Sp \o Bob \o Sp

BotMessages ==
  { BindWord, BindMenuWord,
    BindWord \o Sp \o H1 \o Sp \o Amy,
    PaddedBinding,
    <<"R", "e", "g">> \o Sp \o H2 \o Sp \o Amy,
    BindWord \o Sp \o BadHousehold \o Sp \o Amy,
    BindWord \o Sp \o H1,
    BindWord \o H1 \o Sp \o Amy \o Sp \o Amy,
    H1 \o Sp \o H1 \o Sp \o Amy,
    <<"<ling>", "<qu>">>, <<"<cha>", "<xun>">>, Amy }

BotEvents ==
  {[type |-> "message", mtype |-> "text", text |-> m, userId |-> u] :
     m \in BotMessages, u \in {"U1", "U2"}}
  \cup {[type |-> "message", mtype |-> "image", text |-> <<>>, userId |-> "U1"],
        [type |-> "follow", mtype |-> "none", text |-> <<>>, userId |-> "U1"]}

DoHandleLineEvent(events, fails) ==
  \E event \in events, draws \in DrawSeqs, fail \in fails :
    Idle /\ HandleLineEvent(event, draws, fail)

NextBot ==
  \/ Tick
  \/ Done
  \/ DoHandleLineEvent(BotEvents, NoFail)
  \/ DoCheckIn({Str(H1)}, {"b1"}, {""}, NoFail, NoFail)

\* the chat accounts' messages and the desk's check-ins, one after the other
SpecBot == Init /\ [][NextBot]_vars

\* the whitespace-separated tokens of a text
TokenStarts(s) ==
  {i \in 1..Len(s) : ~IsSpace(s[i]) /\ (i = 1 \/ IsSpace(s[i - 1]))}
TokenCount(s) == Cardinality(TokenStarts(s))
TokenAt(s, k) ==
  LET start == CHOOSE i \in TokenStarts(s) :
                 Cardinality({j \in TokenStarts(s) : j <= i}) = k
      stop == CHOOSE j \in start..Len(s) :
                /\ \A m \in start..j : ~IsSpace(s[m])
                /\ j = Len(s) \/ IsSpace(s[j + 1])
  IN SubSeq(s, start, stop)

\* a binding command, read off the text as it was sent
BindingCommandAsSent(text) ==
  /\ StartsWith(text, BindWord) \/ StartsWith(ToLowerCase(text), RegWord)
  /\ text \notin {BindWord, BindMenuWord}
  /\ TokenCount(text) >= 3
  /\ ValidateHouseholdId(Str(ToUpperCase(TokenAt(text, 2))))

\* a binding command, read off the tokens: leading whitespace does not count
BindingCommand(text) ==
  /\ TokenCount(text) >= 3
  /\ StartsWith(TokenAt(text, 1), BindWord)
       \/ StartsWith(ToLowerCase(TokenAt(text, 1)), RegWord)
  /\ ValidateHouseholdId(Str(ToUpperCase(TokenAt(text, 2))))

IsTextEvent(event) == event.type = "message" /\ event.mtype = "text"

Bindings(rows) ==
  [i \in 1..Len(rows) |-> <<rows[i].lineId, rows[i].hh, rows[i].name>>]

AllStoredValid ==
  \A i \in 1..Len(users) : ValidateHouseholdId(Str(users[i].hh))

\* C15, as stated: the bot changes the Users sheet only for a text message
\* that starts with the binding word or 'reg' (any case), is not a bare help
\* command, has three tokens or more and a valid upper-cased second token;
\* every other event leaves Users as it was; every stored household is valid.
C15_UsersChangedOnlyByBindingAsSent ==
  /\ []AllStoredValid
  /\ [][\A event \in BotEvents, draws \in DrawSeqs :
         (Idle /\ HandleLineEvent(event, draws, "none") /\ users' /= users)
           => IsTextEvent(event) /\ BindingCommandAsSent(event.text)]_vars

\* C15, amended: the bot appends a Users row only for a text message whose
\* first token starts with the binding word or 'reg' (any case), with three
\* tokens or more and a valid upper-cased second token; every other event
\* leaves the rows and their account, household and name as they were, and
\* only a pickup command may overwrite a code cell; every stored household
\* is valid.
C15_RowAppendedOnlyByBinding ==
  /\ []AllStoredValid
  /\ [][\A event \in BotEvents, draws \in DrawSeqs :
         (Idle /\ HandleLineEvent(event, draws, "none"))
           => /\ Bindings(users') /= Bindings(users)
                  => /\ IsTextEvent(event) /\ BindingCommand(event.text)
                     /\ Len(users') = Len(users) + 1
                     /\ SubSeq(users', 1, Len(users)) = users
              /\ (users' /= users /\ Bindings(users') = Bindings(users))
                  => /\ IsTextEvent(event)
                     /\ ToLowerCase(Trim(event.text)) \in PickupCommands]_vars

C15_Witness ==
  /\ resp = Respond(200, "reply: bound")
  /\ Len(users) = 2
  /\ users[1].hh = H2
  /\ users[2].name = Bob /\ users[2].hh = H1

PickupEvents ==
  {event \in BotEvents :
     IsTextEvent(event) /\ ToLowerCase(Trim(event.text)) \in PickupCommands}

HasPending(householdId) ==
  \E p \in 2..Len(packs) : packs[p].hh = householdId /\ packs[p].status = "Pending"

CodeSent == Len(resp') = 1 /\ resp'[1].body = "reply: code"

\* C16: a pickup command writes a code cell only on a row of the sending
\* account, and only when the account is bound and the row's household has a
\* pending package; for an unbound account, or when no household of the
\* account has a pending package, no cell is written and no code is sent; the
\* cell written holds the one new code and its expiry in place of whatever it
\* held, and no row is added or removed.
C16_PickupCommandWritesOwnCodeCell ==
  [][\A event \in PickupEvents, draws \in DrawSeqs :
       (Idle /\ HandleLineEvent(event, draws, "none"))
         => LET own == {i \in 1..Len(users) : users[i].lineId = event.userId}
            IN /\ Len(users') = Len(users)
               /\ \A i \in 1..Len(users) :
                    users'[i] /= users[i]
                      => /\ i \in own
                         /\ HasPending(users[i].hh)
                         /\ CodeSent
                         /\ users'[i] = [users[i] EXCEPT
                               !.otp = [colon |-> TRUE, code |-> resp'[1].data[1],
                                        expiry |-> now + OtpTtlMs]]
                         /\ \A j \in 1..Len(users) : j /= i => users'[j] = users[j]
               /\ (own = {} \/ \A i \in own : ~HasPending(users[i].hh))
                    => users' = users /\ ~CodeSent]_vars

\* a second code issued to U1 in place of its first one, the other row untouched
C16_Witness ==
  /\ Len(resp) = 1 /\ resp[1].body = "reply: code"
  /\ Len(users) = 2
  /\ users[1].lineId = "U1" /\ users[2].lineId = "U2" /\ users[2].hh = users[1].hh
  /\ users[1].otp = [colon |-> TRUE, code |-> resp[1].data[1], expiry |-> 2 * OtpTtlMs]
  /\ users[2].otp = [colon |-> TRUE, code |-> "1000", expiry |-> OtpTtlMs]

\* ------------------------------------------------ failing calls
SheetFails == {"read", "read2", "meta", "write"}
AnyFail == {"auth"} \cup SheetFails \cup {"push"}
NotifyFails == {"none", "auth", "read", "push"}

ApiRequest(fails, nfails) ==
  \/ DoLogin(fails)
  \/ DoGetUsers(fails)
  \/ DoDeleteUser({"U1", "U9"}, fails)
  \/ DoGetResidents(fails)
  \/ DoGetPackages(fails)
  \/ DoCheckIn({Str(H1), Str(BadHousehold)}, {"b1"}, {""}, fails, nfails)
  \/ DoDeletePackage(fails)
  \/ DoVerify(fails)
  \/ DoConfirm({"sig"}, fails)
  \/ DoIssueOtp(fails)
  \/ DoPickup({"sig"}, fails)

NextFail ==
  \/ Done
  \/ DoBotRegister({<<"U1", H1>>}, {"amy"}, NoFail)
  \/ DoBotPickup({"U1"}, NoFail)
  \/ ApiRequest({"none"} \cup AnyFail, NotifyFails)

\* every call a handler makes may fail
SpecFail == Init /\ [][NextFail]_vars

\* the check-in is answered 400 for the request body alone, before the
\* credentials are asked for; so are login, verify and confirm
RejectedByValidation ==
  resp' \in {Respond(400, "household format"), Respond(400, "Missing OTP"),
             Respond(400, "No packages selected"), Respond(400, "Missing credentials")}

FailureBodies ==
  {"Login failed", "users: []", "Delete failed", "residents: []",
   "Fetch failed, with details", "Add failed", "Verification failed",
   "Confirmation failed", "Failed to generate OTP", "Failed to pickup"}

\* C9, as stated: whenever the credentials are missing or a spreadsheet read
\* or write fails while an /api request is handled, exactly one response is
\* sent and its status is 500.
C9_AnyFailureAnswered500 ==
  [][(ApiRequest({"auth"} \cup SheetFails, {"none"}) \/ ApiRequest({"none"}, {"auth", "read"}))
       => Len(resp') = 1 /\ resp'[1].status = 500]_vars

\* C9, amended: when a spreadsheet read or write made by the handler itself
\* fails (or the chat push of the code), exactly one response is sent, with
\* status 500 and the route's failure body; when the credentials are missing
\* the same holds unless the request body fails the route's validation, which
\* is answered 400 first.
C9_HandlerFailureAnswered500 ==
  [][/\ ApiRequest(SheetFails \cup {"push"}, {"none"})
          => Len(resp') = 1 /\ resp'[1].status = 500 /\ resp'[1].body \in FailureBodies
     /\ ApiRequest({"auth"}, {"none"})
          => /\ Len(resp') = 1
             /\ \/ resp'[1].status = 500 /\ resp'[1].body \in FailureBodies
                \/ RejectedByValidation]_vars

\* the write of a pickup failed after its code had been accepted: the package
\* is still pending and the answer is the 500
C9_Witness ==
  /\ resp = Respond(500, "Failed to pickup")
  /\ \E k \in 2..Len(packs) :
       packs[k].status = "Pending" /\ HouseholdHoldsCode(packs[k].hh, "1000")

\* C10: once the row is appended, POST /api/packages answers success with the
\* new package id and the row stays, whether the arrival notification
\* succeeded, failed (user lookup or push) or found no recipient.
C10_NotificationNeverFailsCheckIn ==
  [][\A hhIn \in {Str(H1), Str(BadHousehold)}, nfail \in NotifyFails :
       (Idle /\ CheckIn(hhIn, "b1", "", "none", nfail) /\ Len(packs') > Len(packs))
         => /\ resp' = RespondData(200, "success", PkgId(now))
            /\ Len(packs') = Len(packs) + 1
            /\ SubSeq(packs', 1, Len(packs)) = packs
            /\ packs'[Len(packs')].id = PkgId(now)]_vars

\* a check-in has answered success although the push to the resident failed
C10_Witness ==
  /\ resp /= <<>> /\ resp[1].body = "success" /\ resp[1].status = 200
  /\ \E i \in 1..Len(pushed) : ~pushed[i].delivered
  /\ packs[Len(packs)].id = resp[1].data

\* ------------------------------------------------ generateUniqueOTP alone
\* what Math.floor(1000 + Math.random() * 9000).toString() may deliver
DrawnCodes == {"1000", "9999"}

\* the outcomes of the draws of one call
GenerateDraws == [1..MaxAttempts -> DrawnCodes]

\* code cells as the handlers store them; "5000" stands for a stored code
\* that is not drawn
StoredCells == {FormatOtp("1000", OtpTtlMs), FormatOtp("5000", OtpTtlMs)}

\* the lists userRows.map(r => r[4]).filter(val => val) may deliver
GenerateLists == UNION {[1..k -> StoredCells] : k \in 0..MaxUsers}

InitGenerate ==
  /\ packs = <<HeaderRow>>
  /\ users = <<>>
  /\ now = 0
  /\ lineClient = FALSE
  /\ resp = <<>>
  /\ pushed = <<>>
  /\ inflight = NoInflight
  /\ vIn = Undefined /\ vSrv = FALSE /\ vForm = FALSE /\ vDone = FALSE
  /\ gen \in {[existingOtps |-> e, draws |-> d, otp |-> "", done |-> FALSE] :
                e \in GenerateLists, d \in GenerateDraws}

\* one call generateUniqueOTP(existingOtps)
Generate ==
  /\ ~gen.done
  /\ gen' = [gen EXCEPT !.otp = GenerateUniqueOTP(gen.existingOtps, gen.draws),
                         !.done = TRUE]
  /\ UNCHANGED <<packs, users, now, lineClient, resp, pushed, inflight,
                 vIn, vSrv, vForm, vDone>>

NextGenerate == Generate

SpecGenerate == InitGenerate /\ [][NextGenerate]_vars

\* C19: the code generateUniqueOTP returns is unique among the stored codes:
\* whatever the list and whatever the draws, no entry of the list begins
\* with the returned code followed by ':'.
C19_ReturnedCodeIsUnique ==
  gen.done =>
    \A i \in 1..Len(gen.existingOtps) :
      ~(gen.existingOtps[i].colon /\ gen.existingOtps[i].code = gen.otp)

====
